---- MODULE Spec2Model ----
(***************************************************************************)
(* Model of the per-frame simulation loop of src/components/GameCanvas.tsx *)
(* (KiloMan): keyboard input, the player controller, the monster and       *)
(* moving-platform AI, the collision resolver with the React game state    *)
(* and its guard ref, the after-update clean-up with the fall check and    *)
(* the camera, the resize listener, the jump-strength props, and the       *)
(* tear-down and re-run of the world-building effect.                      *)
(*                                                                         *)
(* Numbers.  Velocities and positions are fixed-point integers in tenths   *)
(* of a world unit (9.5 is 95).  One engine update lasts 1000/60 ms, so a  *)
(* force of a * mass changes a velocity by a * (1000/60)^2 = a * 277.78    *)
(* in that update; the per-update velocity changes below are these values  *)
(* rounded to a tenth.  Air friction (0.003 for the player) is below the   *)
(* resolution of the lattice and is left out of the integration.           *)
(***************************************************************************)
EXTENDS Integers, Sequences, FiniteSets, TLC

VARIABLES
    keysRef,          \* keysRef.current: key code -> pressed flag
    held,             \* key codes physically held down by the user
    gameState,        \* React state gameState, as committed by the last render
    pendingGameState, \* queued setGameState updates reduced to the last one, or "none"
    gameStateRef,     \* gameStateRef.current: the guard the handlers read
    pc,               \* position of the engine update in flight ("idle" between updates)
    pairs,            \* event.pairs delivered to the collisionStart handler
    world,            \* removable bodies present in engine.world
    projectiles,      \* projectilesRef.current
    monsters,         \* monstersRef.current
    monsterAI,        \* monsterAIRef.current: body -> AI record
    monsterStyleSeed, \* keys of monsterStyleSeedRef.current
    movingPlatformAI, \* movingPlatformAIRef.current
    bodyX,            \* horizontal position of the patrol monsters and the moving platform
    bodyVel,          \* velocity <<x, y>> of each monster and of the moving platform
    vx, vy,           \* velocity of the torso
    forceX,           \* player.force.x / mass, as the velocity change it will cause
    grounded,         \* playerGroundedRef.current
    facing,           \* playerFacingRef.current
    jumpWasDown,      \* jumpWasDownRef.current
    jumpStrength,     \* prop jumpStrength
    jumpHeight,       \* prop jumpHeight (deprecated), or Undefined
    jumpStrengthRef,  \* jumpStrengthRef.current
    firedThisPress,   \* history: a projectile was created since the last physical press of KeyK
    jumpHeldLastTick, \* history: a jump key was physically held when the controller last ran
    jumped,           \* history: the controller's last run took the jump branch
    below,            \* history: what the controller's last ray met, each body with its gap
    width,            \* props width and height (given together), or Undefined: fullscreen
    viewportW,        \* viewportWRef.current
    cameraX,          \* cameraXRef.current
    playerPos,        \* playerRef.current.position as afterUpdate last read it
    flyerView,        \* offsets the flying monster's branch last read
    worldGen,         \* how many worlds the world-building effect has torn down
    staleAI,          \* keys of monsterAIRef.current that are bodies of torn-down worlds
    projectileAt,     \* position of each projectile body where it was created or last read
    jumpOwed,         \* history: a jump key went down on the ground since the controller's last run
    axisSeen,         \* history: axis in the controller's last run
    mounted,          \* the world-building effect is set up and not cleaned up for good
    listeners,        \* event types with a handler of the component on window
    running,          \* which of the runner's and the renderer's loops are running
    drawnCamX         \* cameraXRef.current as the last afterRender read it

vars == <<keysRef, held, gameState, pendingGameState, gameStateRef, pc, pairs,
          world, projectiles, monsters, monsterAI, monsterStyleSeed,
          movingPlatformAI, bodyX, bodyVel, vx, vy, forceX, grounded, facing, jumpWasDown,
          jumpStrength, jumpHeight, jumpStrengthRef, firedThisPress,
          jumpHeldLastTick, jumped, below, width, viewportW, cameraX, playerPos,
          flyerView, worldGen, staleAI, projectileAt, jumpOwed,
          axisSeen, mounted, listeners, running, drawnCamX>>

inputVars == <<keysRef, held>>
stateVars == <<gameState, pendingGameState, gameStateRef>>
bodyVars  == <<world, projectiles, monsters, monsterAI, monsterStyleSeed, projectileAt>>
npcVars   == <<movingPlatformAI, bodyX, bodyVel, flyerView>>
playerVars == <<vx, vy, forceX, grounded, facing, jumpWasDown>>
propVars  == <<jumpStrength, jumpHeight, jumpStrengthRef, width>>
histVars  == <<firedThisPress, jumpHeldLastTick, jumped, below, jumpOwed, axisSeen>>
cameraVars == <<viewportW, cameraX, playerPos>>
buildVars == <<worldGen, staleAI>>
mountVars == <<mounted, listeners, running, drawnCamX>>

----------------------------------------------------------------------------
(* Bounds of the model *)

MaxProjectiles == 2   \* projectiles alive at once
MaxPairs == 2         \* collision pairs reported in one update
MaxFall == 10         \* largest downward speed explored (tenths)
MaxCamera == 4000     \* largest camera target followed (tenths)
MaxRebuilds == 1      \* worlds torn down and rebuilt

----------------------------------------------------------------------------
(* Small helpers *)

Abs(n) == IF n < 0 THEN -n ELSE n
Min(a, b) == IF a < b THEN a ELSE b
Max(a, b) == IF a > b THEN a ELSE b

\* n / d rounded to the nearest integer, halves away from zero (d > 0)
RoundDiv(n, d) == IF n >= 0 THEN (2 * n + d) \div (2 * d)
                  ELSE -((2 * (-n) + d) \div (2 * d))

Range(s) == {s[i] : i \in 1..Len(s)}

\* Array.prototype.filter
RECURSIVE Filter(_, _)
Filter(s, keep) ==
    IF s = <<>> THEN <<>>
    ELSE IF Head(s) \in keep THEN <<Head(s)>> \o Filter(Tail(s), keep)
         ELSE Filter(Tail(s), keep)

----------------------------------------------------------------------------
(* Program constants (velocities and positions in tenths of a world unit) *)

maxRunSpeed == 95            \* 9.5
maxAirSpeed == 105           \* 10.5
accelGround == 9             \* 0.0032 * 277.78 = 0.889
accelAir == 11               \* 0.0038 * 277.78 = 1.056
brakeGroundPermille == 1278  \* 0.0046 * 277.78 = 1.278 of the velocity
brakeAirPermille == 500      \* 0.0018 * 277.78 = 0.500 of the velocity
deadBandHundredths == 2      \* |vx| > 0.02
facingHundredths == 35       \* velocity.x > 0.35
gravityStep == 5             \* gravity.y 1.8 * scale 0.001 * 277.78 = 0.5
defaultJumpStrength == 220   \* jumpStrength = 22
pageJumpStrength == 180      \* GamePage: useState(18)
sliderMin == 100             \* GamePage: min={10}
sliderMax == 180             \* GamePage: max={18}

\* World geometry and camera (tenths)
LEVEL_LENGTH == 80000
WORLD_HEIGHT == 6000
fallMargin == 2600
rayLength == 310
boundsMargin == 2000
smoothingPercent == 14
initialViewportW == 8000

\* A prop that is not passed (no value of a prop is negative)
Undefined == -1

\* Key codes the handlers read
FireCode == "KeyK"
JumpCodes == {"ArrowUp", "Space", "KeyW"}
LeftCodes == {"ArrowLeft", "KeyA"}
RightCodes == {"ArrowRight", "KeyD"}
Codes == {FireCode} \cup JumpCodes \cup LeftCodes \cup RightCodes

----------------------------------------------------------------------------
(* Bodies.  A body is named by a string; Label gives body.label.  The torso *)
(* and the head are created without a label and are recognised by identity. *)

torso == "torso"
head == "head"
Monsters == <<"monster1", "monster2", "monster3">>
Projectile(i) == "projectile" \o ToString(i)
ProjectileBodies == {Projectile(i) : i \in 1..MaxProjectiles}
\* One representative of each kind of static body
StaticBodies == {"ground", "platform", "spike", "goal", "boundary"}

Label(b) ==
    IF b \in Range(Monsters) THEN "monster"
    ELSE IF b \in ProjectileBodies THEN "projectile"
    ELSE IF b = torso THEN "Rectangle Body"
    ELSE IF b = head THEN "Circle Body"
    ELSE b

IsSensor(b) == b = "goal"

\* monsterAIRef.current.set(...) at construction
InitialMonsterAI ==
    [m \in Range(Monsters) |->
        IF m = "monster1"
        THEN [kind |-> "patrol", originX |-> 12000, range |-> 2400, speed |-> 22,
              dir |-> 1, chaseRadius |-> 0]
        ELSE IF m = "monster2"
        THEN [kind |-> "patrol", originX |-> 33500, range |-> 1800, speed |-> 19,
              dir |-> -1, chaseRadius |-> 0]
        ELSE [kind |-> "flying", originX |-> 56000, range |-> 0, speed |-> 26,
              dir |-> 1, chaseRadius |-> 3400]]

movingPlatform == "movingPlatform"

\* movingPlatformAIRef.current = {...} at construction
InitialPlatformAI == [originX |-> 36000, range |-> 1200, speed |-> 11, dir |-> 1]

PatrolBodies == {m \in Range(Monsters) : InitialMonsterAI[m].kind = "patrol"}

InitialBodyX ==
    [b \in PatrolBodies \cup {movingPlatform} |->
        IF b = movingPlatform THEN InitialPlatformAI.originX
        ELSE InitialMonsterAI[b].originX]

\* The torso as the world builder places it, and found below the fall line
PlayerStart == [x |-> 1200, y |-> 5200]
PlayerBelow == [x |-> 1200, y |-> WORLD_HEIGHT + fallMargin + 1]

\* The flyer at its origin (5600, 240) seen from the torso at its start
InitialView == [dx |-> -54800, dy |-> 2800, dist |-> 54871, toX |-> 0, toY |-> 0]

----------------------------------------------------------------------------
(* State after construction (first render and the world-building effect) *)

\* window.addEventListener(...) of the world-building effect
SetupListeners == {"keydown", "keyup", "touchmove", "wheel", "resize"}

\* Matter.Runner.run(runner, engine); Matter.Render.run(render)
SetupLoops == {"runner", "render"}

Init ==
    /\ keysRef = [c \in Codes |-> FALSE]
    /\ held = {}
    /\ gameState = "playing"
    /\ pendingGameState = "none"
    /\ gameStateRef = "playing"
    /\ pc = "idle"
    /\ pairs = <<>>
    /\ world = Range(Monsters)
    /\ projectiles = <<>>
    /\ monsters = Monsters
    /\ monsterAI = InitialMonsterAI
    /\ monsterStyleSeed = Range(Monsters)
    /\ movingPlatformAI = InitialPlatformAI
    /\ bodyX = InitialBodyX
    /\ bodyVel = [b \in Range(Monsters) \cup {movingPlatform} |-> <<0, 0>>]
    /\ vx = 0
    /\ vy = 0
    /\ forceX = 0
    /\ grounded = FALSE
    /\ facing = 1
    /\ jumpWasDown = FALSE
    /\ jumpStrength = pageJumpStrength
    /\ jumpHeight = Undefined
    /\ jumpStrengthRef = pageJumpStrength
    /\ firedThisPress = FALSE
    /\ jumpHeldLastTick = FALSE
    /\ jumped = FALSE
    /\ jumpOwed = FALSE
    /\ axisSeen = 0
    /\ mounted = TRUE
    /\ listeners = SetupListeners
    /\ running = SetupLoops
    /\ drawnCamX = 0
    /\ below = {}
    /\ width = Undefined
    /\ viewportW = initialViewportW
    /\ cameraX = 0
    /\ playerPos = PlayerStart
    /\ flyerView = InitialView
    /\ worldGen = 0
    /\ staleAI = {}
    /\ projectileAt = [p \in ProjectileBodies |-> PlayerStart]

----------------------------------------------------------------------------
(* Keyboard.  The host delivers keydown on the physical press and again,   *)
(* repeatedly, while the key stays held (auto-repeat); keyup on release.   *)

handleKeyDown(code) == keysRef' = [keysRef EXCEPT ![code] = TRUE]

handleKeyUp(code) == keysRef' = [keysRef EXCEPT ![code] = FALSE]

\* The fire key is pressed only while a projectile slot is free, which keeps
\* the number of live projectiles within MaxProjectiles.
KeyPress(code) ==
    /\ pc = "idle"
    /\ "keydown" \in listeners
    /\ code \notin held
    /\ code = FireCode => Len(projectiles) < MaxProjectiles
    /\ held' = held \cup {code}
    /\ handleKeyDown(code)
    /\ firedThisPress' = IF code = FireCode THEN FALSE ELSE firedThisPress
    /\ jumpOwed' = (jumpOwed \/ (code \in JumpCodes /\ grounded))
    /\ UNCHANGED <<stateVars, pc, pairs, bodyVars, npcVars, playerVars, propVars,
                   jumpHeldLastTick, jumped, below, axisSeen, cameraVars, buildVars,
                   mountVars>>

KeyRepeat(code) ==
    /\ pc = "idle"
    /\ "keydown" \in listeners
    /\ code \in held
    /\ code = FireCode => Len(projectiles) < MaxProjectiles
    /\ handleKeyDown(code)
    /\ UNCHANGED <<held, stateVars, pc, pairs, bodyVars, npcVars, playerVars,
                   propVars, histVars, cameraVars, buildVars, mountVars>>

KeyRelease(code) ==
    /\ pc = "idle"
    /\ "keyup" \in listeners
    /\ code \in held
    /\ held' = held \ {code}
    /\ handleKeyUp(code)
    /\ UNCHANGED <<stateVars, pc, pairs, bodyVars, npcVars, playerVars, propVars,
                   histVars, cameraVars, buildVars, mountVars>>

----------------------------------------------------------------------------
(* React.  setGameState queues an update; the next render commits the last *)
(* queued value; the effect that copies gameState into gameStateRef runs   *)
(* after the commit, at the latest before the following render.            *)

setGameState(v) == pendingGameState' = v

SyncGameStateRef ==
    /\ pc = "idle"
    /\ mounted
    /\ gameStateRef # gameState
    /\ gameStateRef' = gameState
    /\ UNCHANGED <<inputVars, gameState, pendingGameState, pc, pairs, bodyVars,
                   npcVars, playerVars, propVars, histVars, cameraVars, buildVars,
                   mountVars>>

ReactRender ==
    /\ pc = "idle"
    /\ mounted
    /\ pendingGameState # "none"
    /\ gameStateRef' = gameState
    /\ gameState' = pendingGameState
    /\ pendingGameState' = "none"
    /\ UNCHANGED <<inputVars, pc, pairs, bodyVars, npcVars, playerVars, propVars,
                   histVars, cameraVars, buildVars, mountVars>>

\* The ref keeping the value it was created with
JumpStrengthNeverSynced(strength, height) == jumpStrengthRef

\* useEffect on [jumpStrength, jumpHeight]
ResolveJumpStrength(strength, height) ==
    IF height # Undefined THEN height ELSE strength

\* The page's slider changes the prop; the change is a discrete event, so
\* React renders and runs the effect before the event returns.
SetJumpStrength(v) ==
    /\ pc = "idle"
    /\ mounted
    /\ v # jumpStrength
    /\ jumpStrength' = v
    /\ jumpStrengthRef' = ResolveJumpStrength(v, jumpHeight)
    /\ UNCHANGED <<inputVars, stateVars, pc, pairs, bodyVars, npcVars, playerVars,
                   jumpHeight, width, histVars, cameraVars, buildVars,
                   mountVars>>

\* A host passes, changes or withdraws the deprecated prop; the effect of
\* lines 77-81 runs with the render that delivers it.
SetJumpHeight(h) ==
    /\ pc = "idle"
    /\ mounted
    /\ h # jumpHeight
    /\ jumpHeight' = h
    /\ jumpStrengthRef' = ResolveJumpStrength(jumpStrength, h)
    /\ UNCHANGED <<inputVars, stateVars, pc, pairs, bodyVars, npcVars, playerVars,
                   jumpStrength, width, histVars, cameraVars, buildVars,
                   mountVars>>

----------------------------------------------------------------------------
(* beforeUpdate, first handler: the player controller *)

\* createProjectile picks a body the engine has not in use
FreshProjectile ==
    LET used == world \cup Range(projectiles)
        i == CHOOSE k \in 1..MaxProjectiles :
                 /\ Projectile(k) \notin used
                 /\ \A j \in 1..(k - 1) : Projectile(j) \in used
    IN Projectile(i)

\* Where createProjectile puts the new body: in front of the torso
SpawnPlace == [x |-> playerPos.x + facing * 240, y |-> playerPos.y]

\* keysRef.current['KeyK'] after the fire branch
FireKeyAfterShot == FALSE

\* The callback without its sensor test
GroundHitSensorToo(b) ==
    /\ b # torso
    /\ b # head
    /\ Label(b) \notin {"monster", "boundary"}

\* The callback of rayHits.some(...)
GroundHit(b) ==
    /\ b # torso
    /\ b # head
    /\ ~IsSensor(b)
    /\ Label(b) \notin {"monster", "boundary"}

Grounded(hits) == \E b \in hits : GroundHit(b)

\* Matter.Query.ray from the torso's centre straight down: the bodies of
\* those under the torso whose gap (centre to the body, along the ray) is
\* within the ray's length
RayHits(under) == {c.body : c \in {d \in under : d.gap < rayLength}}

Pressed(keys, codes) == \E c \in codes : keys[c]

\* The axis when right takes precedence over left
AxisRightFirst(keys) ==
    IF Pressed(keys, RightCodes) THEN 1
    ELSE IF Pressed(keys, LeftCodes) THEN -1 ELSE 0

\* axis
Axis(keys) ==
    (IF Pressed(keys, RightCodes) THEN 1 ELSE 0)
    + (IF Pressed(keys, LeftCodes) THEN -1 ELSE 0)

Facing(f, axis, v) ==
    IF axis = 1 THEN 1
    ELSE IF axis = -1 THEN -1
    ELSE IF v * 10 > facingHundredths THEN 1
    ELSE IF v * 10 < -facingHundredths THEN -1
    ELSE f

MaxSpeed(g) == IF g THEN maxRunSpeed ELSE maxAirSpeed

OutsideDeadBand(v) == Abs(v) * 10 > deadBandHundredths

\* applyForce: the velocity change the force causes in the coming update
MoveForceX(v, axis, g) ==
    IF axis # 0 THEN axis * (IF g THEN accelGround ELSE accelAir)
    ELSE IF OutsideDeadBand(v)
         THEN RoundDiv(-v * (IF g THEN brakeGroundPermille ELSE brakeAirPermille), 1000)
         ELSE 0

\* setVelocity(x: 0) inside the dead band while grounded
MoveVelocityX(v, axis, g) ==
    IF axis = 0 /\ ~OutsideDeadBand(v) /\ g THEN 0 ELSE v

\* The clamp to +-maxSpeed
ClampVelocityX(v, g) ==
    IF v > MaxSpeed(g) THEN MaxSpeed(g)
    ELSE IF v < -MaxSpeed(g) THEN -MaxSpeed(g)
    ELSE v

JumpDown(keys) == Pressed(keys, JumpCodes)

JumpPressed(down, was) == down /\ ~was

\* jumpWasDownRef refreshed only while grounded
JumpWasDownOnGroundOnly(down, was, g) == IF g THEN down ELSE was

\* jumpWasDownRef.current after the controller ran
NextJumpWasDown(down, was, g) == down

\* The jump as an impulse added to the vertical velocity
JumpVelocityAdds(v, strength) == <<v[1], v[2] - strength>>

\* setVelocity(player, {x: player.velocity.x, y: -jumpStrengthRef.current})
JumpVelocity(v, strength) == <<v[1], -strength>>

PlayerController(under) ==
    /\ pc = "idle"
    /\ "runner" \in running
    /\ LET fire == keysRef[FireCode]
           keys == IF fire THEN [keysRef EXCEPT ![FireCode] = FireKeyAfterShot]
                   ELSE keysRef
           g == Grounded(RayHits(under))
           axis == Axis(keys)
           moved == MoveVelocityX(vx, axis, g)
           clamped == ClampVelocityX(moved, g)
           down == JumpDown(keys)
           pressed == JumpPressed(down, jumpWasDown)
           v == IF pressed /\ g THEN JumpVelocity(<<clamped, vy>>, jumpStrengthRef)
                ELSE <<clamped, vy>>
       IN /\ IF fire
             THEN /\ world' = world \cup {FreshProjectile}
                  /\ projectiles' = Append(projectiles, FreshProjectile)
                  /\ projectileAt' = [projectileAt EXCEPT ![FreshProjectile] = SpawnPlace]
             ELSE UNCHANGED <<world, projectiles, projectileAt>>
          /\ keysRef' = keys
          /\ grounded' = g
          /\ facing' = Facing(facing, axis, vx)
          /\ forceX' = forceX + MoveForceX(vx, axis, g)
          /\ vx' = v[1]
          /\ vy' = v[2]
          /\ jumpWasDown' = NextJumpWasDown(down, jumpWasDown, g)
          /\ firedThisPress' = (firedThisPress \/ fire)
          /\ jumpHeldLastTick' = (held \cap JumpCodes # {})
          /\ jumped' = (pressed /\ g)
          /\ jumpOwed' = FALSE
          /\ axisSeen' = axis
          /\ below' = under
    /\ pc' = "ai"
    /\ UNCHANGED <<held, stateVars, pairs, monsters, monsterAI, monsterStyleSeed,
                   npcVars, propVars, cameraVars, buildVars, mountVars>>

----------------------------------------------------------------------------
(* beforeUpdate, second handler: monster and moving-platform AI *)

\* The flip rule without its second test
PatrolDirLeftEdgeOnly(ai, x) ==
    IF x < ai.originX - ai.range \div 2 THEN 1 ELSE ai.dir

\* The flip rule shared by the patrol monsters and the moving platform
PatrolDir(ai, x) ==
    LET half == ai.range \div 2
        d1 == IF x < ai.originX - half THEN 1 ELSE ai.dir
    IN IF x > ai.originX + half THEN -1 ELSE d1

Clamp(v, lo, hi) == Max(lo, Min(v, hi))

\* What the flyer's branch reads: the offset to the player with its length,
\* and the offset to the hover target.  dist is Math.hypot(dx, dy).
FlyerViews ==
    { [dx |-> 1000, dy |-> 0, dist |-> 1000, toX |-> 0, toY |-> 0],
      [dx |-> -500, dy |-> 1200, dist |-> 1300, toX |-> 0, toY |-> 0],
      [dx |-> 0, dy |-> -13, dist |-> 13, toX |-> 0, toY |-> 0],
      [dx |-> 30000, dy |-> 40000, dist |-> 50000, toX |-> 100, toY |-> -50],
      [dx |-> 2040, dy |-> 2720, dist |-> 3400, toX |-> -700, toY |-> 0],
      [dx |-> 6, dy |-> 8, dist |-> 10, toX |-> 700, toY |-> 220] }

\* The chase test with the radius included
FlyingVelocityAtRadius(ai, view) ==
    IF view.dist > 10 /\ view.dist <= ai.chaseRadius
    THEN <<RoundDiv(view.dx * ai.speed, view.dist),
           RoundDiv(view.dy * ai.speed, view.dist)>>
    ELSE <<Clamp(RoundDiv(view.toX * 6, 100), -ai.speed, ai.speed),
           Clamp(RoundDiv(view.toY * 6, 100), -ai.speed, ai.speed)>>

\* Velocity given to the flying monster
FlyingVelocity(ai, view) ==
    IF view.dist > 10 /\ view.dist < ai.chaseRadius
    THEN <<RoundDiv(view.dx * ai.speed, view.dist),
           RoundDiv(view.dy * ai.speed, view.dist)>>
    ELSE <<Clamp(RoundDiv(view.toX * 6, 100), -ai.speed, ai.speed),
           Clamp(RoundDiv(view.toY * 6, 100), -ai.speed, ai.speed)>>

\* One iteration of the loop over monstersRef.current
MonsterDir(m) ==
    IF monsterAI[m].kind = "patrol" THEN PatrolDir(monsterAI[m], bodyX[m])
    ELSE monsterAI[m].dir

\* The patrol velocity without its direction
MonsterVelocityForward(m, view) ==
    IF monsterAI[m].kind = "patrol"
    THEN <<monsterAI[m].speed, bodyVel[m][2]>>
    ELSE FlyingVelocity(monsterAI[m], view)

MonsterVelocity(m, view) ==
    IF monsterAI[m].kind = "patrol"
    THEN <<monsterAI[m].speed * MonsterDir(m), bodyVel[m][2]>>
    ELSE FlyingVelocity(monsterAI[m], view)

\* The registry rewritten for the patrol monsters only
AIRecordsPatrolOnly ==
    [m \in {n \in DOMAIN monsterAI : monsterAI[n].kind = "patrol"} |->
        IF m \in Range(monsters)
        THEN [monsterAI[m] EXCEPT !.dir = MonsterDir(m)]
        ELSE monsterAI[m]]

\* monsterAIRef.current after the loop: ai.dir is the only field assigned
AIRecords ==
    [m \in DOMAIN monsterAI |->
        IF m \in Range(monsters)
        THEN [monsterAI[m] EXCEPT !.dir = MonsterDir(m)]
        ELSE monsterAI[m]]

MonsterAI(view) ==
    /\ pc = "ai"
    /\ LET tracked == Range(monsters) \cap DOMAIN monsterAI
           pdir == PatrolDir(movingPlatformAI, bodyX[movingPlatform])
       IN /\ monsterAI' = AIRecords
          /\ movingPlatformAI' = [movingPlatformAI EXCEPT !.dir = pdir]
          /\ bodyVel' = [b \in DOMAIN bodyVel |->
                            IF b \in tracked THEN MonsterVelocity(b, view)
                            ELSE IF b = movingPlatform
                                 THEN <<movingPlatformAI.speed * pdir, 0>>
                                 ELSE bodyVel[b]]
    /\ flyerView' = view
    /\ pc' = "step"
    /\ UNCHANGED <<inputVars, stateVars, pairs, world, projectiles, monsters,
                   monsterStyleSeed, projectileAt, bodyX, playerVars, propVars,
                   histVars, cameraVars, buildVars, mountVars>>

----------------------------------------------------------------------------
(* The engine's update between the beforeUpdate handlers and collisionStart: *)
(* it integrates the forces, moves the bodies and detects the new contacts.  *)
(* contact is what the torso touches in this update, movers the patrolling   *)
(* bodies that are free to move (the others are held by a contact), found    *)
(* the pairs whose collision starts.                                         *)

Contacts == {"none", "floor", "wall"}

EngineVelocityX(v, f, contact) == IF contact = "wall" THEN 0 ELSE v + f

EngineVelocityY(v, contact) ==
    IF contact = "floor" THEN Min(0, v + gravityStep) ELSE v + gravityStep

EngineStep(contact, movers, found) ==
    /\ pc = "step"
    /\ EngineVelocityY(vy, contact) <= MaxFall
    /\ vx' = EngineVelocityX(vx, forceX, contact)
    /\ vy' = EngineVelocityY(vy, contact)
    /\ forceX' = 0
    /\ bodyX' = [b \in DOMAIN bodyX |->
                    IF b \in movers /\ (b = movingPlatform \/ b \in world)
                    THEN bodyX[b] + bodyVel[b][1]
                    ELSE bodyX[b]]
    /\ pairs' = found
    /\ pc' = "collide"
    /\ UNCHANGED <<inputVars, stateVars, bodyVars, movingPlatformAI, bodyVel, flyerView,
                   grounded, facing, jumpWasDown, propVars, histVars, cameraVars, buildVars,
                   mountVars>>

\* Sequences over S of length at most n
SeqsUpTo(S, n) == UNION {[1..k -> S] : k \in 0..n}

\* The pair lists of one update: the engine reports a pair of bodies once
PairLists(S, n) ==
    {ps \in SeqsUpTo(S, n) :
        \A i, j \in 1..Len(ps) : i # j => Range(ps[i]) # Range(ps[j])}

\* Contacts the engine can report: both bodies are in the world
PlayerPairs(others) ==
    {<<p, o>> : p \in {torso, head}, o \in others}
    \cup {<<o, p>> : p \in {torso, head}, o \in others}

HitPairs ==
    LET ps == world \cap ProjectileBodies
        ms == world \cap Range(Monsters)
    IN {<<p, m>> : p \in ps, m \in ms} \cup {<<m, p>> : p \in ps, m \in ms}

----------------------------------------------------------------------------
(* collisionStart: pairs.forEach(...) *)

IsHitPair(pair) ==
    \/ Label(pair[1]) = "projectile" /\ Label(pair[2]) = "monster"
    \/ Label(pair[2]) = "projectile" /\ Label(pair[1]) = "monster"

IsPlayerInvolved(pair) == pair[1] \in {torso, head} \/ pair[2] \in {torso, head}

OtherBody(pair) ==
    IF pair[1] = torso \/ pair[2] = torso
    THEN (IF pair[1] = torso THEN pair[2] ELSE pair[1])
    ELSE (IF pair[1] = head THEN pair[2] ELSE pair[1])

\* Outcome without its monster branch
OutcomeNoMonster(label) ==
    IF label = "spike" THEN "gameOver"
    ELSE IF label = "goal" THEN "won"
    ELSE "none"

\* The state a terminal collision asks for, or "none"
Outcome(label) ==
    IF label = "spike" THEN "gameOver"
    ELSE IF label = "monster" THEN "gameOver"
    ELSE IF label = "goal" THEN "won"
    ELSE "none"

\* The guard in front of every setGameState of the handlers
GuardOpen == gameStateRef = "playing"

\* The part of the state the handler works on
ResolverState ==
    [world |-> world, projectiles |-> projectiles, monsters |-> monsters,
     monsterAI |-> monsterAI, monsterStyleSeed |-> monsterStyleSeed,
     pending |-> pendingGameState]

\* The hit branch forgetting the AI registry
ResolveHitKeepsAI(st, pair) ==
    LET projectile == IF Label(pair[1]) = "projectile" THEN pair[1] ELSE pair[2]
        monster == IF Label(pair[1]) = "projectile" THEN pair[2] ELSE pair[1]
    IN [st EXCEPT
          !.world = st.world \ {projectile, monster},
          !.projectiles = Filter(st.projectiles, Range(st.projectiles) \ {projectile}),
          !.monsters = Filter(st.monsters, Range(st.monsters) \ {monster}),
          !.monsterStyleSeed = st.monsterStyleSeed \ {monster}]

\* The projectile/monster branch
ResolveHit(st, pair) ==
    LET projectile == IF Label(pair[1]) = "projectile" THEN pair[1] ELSE pair[2]
        monster == IF Label(pair[1]) = "projectile" THEN pair[2] ELSE pair[1]
    IN [st EXCEPT
          !.world = st.world \ {projectile, monster},
          !.projectiles = Filter(st.projectiles, Range(st.projectiles) \ {projectile}),
          !.monsters = Filter(st.monsters, Range(st.monsters) \ {monster}),
          !.monsterAI = [m \in DOMAIN st.monsterAI \ {monster} |-> st.monsterAI[m]],
          !.monsterStyleSeed = st.monsterStyleSeed \ {monster}]

\* The player branch looking only at bodies still in the world
ResolvePlayerLiveOnly(st, pair) ==
    LET other == OtherBody(pair)
        want == IF Label(other) = "monster" /\ other \notin st.world THEN "none"
                ELSE Outcome(Label(other))
    IN IF want # "none" /\ GuardOpen THEN [st EXCEPT !.pending = want] ELSE st

\* The player branch
ResolvePlayer(st, pair) ==
    LET want == Outcome(Label(OtherBody(pair)))
    IN IF want # "none" /\ GuardOpen THEN [st EXCEPT !.pending = want] ELSE st

\* The body of pairs.forEach
ResolvePair(st, pair) ==
    IF IsHitPair(pair) THEN ResolveHit(st, pair)
    ELSE IF IsPlayerInvolved(pair) THEN ResolvePlayer(st, pair)
    ELSE st

RECURSIVE ResolvePairs(_, _)
ResolvePairs(st, ps) ==
    IF ps = <<>> THEN st ELSE ResolvePairs(ResolvePair(st, Head(ps)), Tail(ps))

CollisionStart ==
    /\ pc = "collide"
    /\ LET st == ResolvePairs(ResolverState, pairs)
       IN /\ world' = st.world
          /\ projectiles' = st.projectiles
          /\ monsters' = st.monsters
          /\ monsterAI' = st.monsterAI
          /\ monsterStyleSeed' = st.monsterStyleSeed
          /\ pendingGameState' = st.pending
    /\ pairs' = <<>>
    /\ pc' = "after"
    /\ UNCHANGED <<inputVars, gameState, gameStateRef, projectileAt, npcVars,
                   playerVars, propVars, histVars, cameraVars, buildVars,
                   mountVars>>

----------------------------------------------------------------------------
(* afterUpdate: projectile clean-up, the fall check and the camera.         *)
(* seen are the places where the engine has left projectiles of the world  *)
(* (the others are where they were), position is where it has left the     *)
(* torso.                                                                  *)

\* playerRef.current.position.y > WORLD_HEIGHT + 260
Fell(position) == position.y > WORLD_HEIGHT + fallMargin

\* The target without its clamp
CameraTargetUnclamped(x, vw) == x - vw \div 2

\* clampedTargetX
CameraTarget(x, vw) == Clamp(x - vw \div 2, 0, Max(0, LEVEL_LENGTH - vw))

\* The smoothing step cut off instead of rounded
CameraStepTruncated(cam, target) == cam + ((target - cam) * smoothingPercent) \div 100

\* cameraXRef.current += (clampedTargetX - cameraXRef.current) * 0.14,
\* rounded to the lattice as the floating-point sum is to its own
CameraStep(cam, target) == cam + RoundDiv((target - cam) * smoothingPercent, 100)

\* The bounds test without its vertical half
OutOfBoundsSideways(place) ==
    \/ place.x < 0
    \/ place.x > LEVEL_LENGTH

\* isOutOfBounds
OutOfBounds(place) ==
    \/ place.x < 0
    \/ place.x > LEVEL_LENGTH
    \/ place.y < -boundsMargin
    \/ place.y > WORLD_HEIGHT + boundsMargin

\* Projectiles S as the engine has left them beyond the right end of the level
Outside(S) == {[body |-> p, x |-> LEVEL_LENGTH + 10, y |-> 3000] : p \in S}

AfterUpdate(seen, position) ==
    /\ pc = "after"
    /\ \A c \in seen : c.body \in Range(projectiles) \cap world
    /\ \A c, d \in seen : c.body = d.body => c = d
    /\ LET at == [p \in ProjectileBodies |->
                    IF \E c \in seen : c.body = p
                    THEN LET c == CHOOSE d \in seen : d.body = p
                         IN [x |-> c.x, y |-> c.y]
                    ELSE projectileAt[p]]
           outOfBounds == {p \in Range(projectiles) : OutOfBounds(at[p])}
       IN /\ projectiles' = Filter(projectiles, Range(projectiles) \ outOfBounds)
          /\ world' = world \ outOfBounds
          /\ projectileAt' = at
    /\ IF Fell(position) /\ GuardOpen THEN setGameState("gameOver")
       ELSE UNCHANGED pendingGameState
    /\ cameraX' = CameraStep(cameraX, CameraTarget(position.x, viewportW))
    /\ playerPos' = position
    /\ pc' = "idle"
    /\ UNCHANGED <<inputVars, gameState, gameStateRef, pairs, monsters, monsterAI,
                   monsterStyleSeed, npcVars, playerVars, propVars, histVars,
                   viewportW, buildVars, mountVars>>

(* The window's resize event *)

handleResize(nextW) ==
    /\ pc = "idle"
    /\ "resize" \in listeners
    /\ width = Undefined
    /\ viewportW' = nextW
    /\ UNCHANGED <<inputVars, stateVars, pc, pairs, bodyVars, npcVars, playerVars,
                   propVars, histVars, cameraX, playerPos, buildVars,
                   mountVars>>

(* The world-building effect re-run: a change of the width and height      *)
(* props runs the effect's cleanup (listeners removed, render and runner   *)
(* stopped, engine cleared) and then the effect again, which builds a new  *)
(* engine and world.  The refs the effect does not assign keep their value. *)

\* The new world taking over the bodies of the old one
BuildWorldOnOld(old) == old \cup Range(Monsters)

\* The removable bodies World.add puts into the new engine's world
BuildWorld(old) == Range(Monsters)

Rebuild(w) ==
    /\ pc = "idle"
    /\ mounted
    /\ w # width
    /\ worldGen < MaxRebuilds
    /\ width' = w
    /\ viewportW' = (IF w # Undefined THEN w ELSE initialViewportW)
    /\ world' = BuildWorld(world)
    /\ monsters' = Monsters
    /\ monsterAI' = InitialMonsterAI
    /\ monsterStyleSeed' = Range(Monsters)
    /\ staleAI' = staleAI \cup {<<worldGen, m>> : m \in DOMAIN monsterAI}
    /\ worldGen' = worldGen + 1
    /\ movingPlatformAI' = InitialPlatformAI
    /\ bodyX' = InitialBodyX
    /\ bodyVel' = [b \in Range(Monsters) \cup {movingPlatform} |-> <<0, 0>>]
    /\ vx' = 0
    /\ vy' = 0
    /\ forceX' = 0
    /\ pairs' = <<>>
    /\ UNCHANGED <<inputVars, stateVars, pc, projectiles, projectileAt, grounded,
                   facing, jumpWasDown, jumpStrength, jumpHeight, jumpStrengthRef,
                   histVars, cameraX, playerPos, flyerView, mountVars>>

----------------------------------------------------------------------------
(* Specifications.  Every one runs the whole update (the two beforeUpdate   *)
(* handlers, the engine, collisionStart, afterUpdate); they differ in what  *)
(* the user and the engine feed it.                                         *)

OnGround == {[body |-> "ground", gap |-> 180]}
FarView == CHOOSE v \in FlyerViews : v.dist > InitialMonsterAI["monster3"].chaseRadius

\* Game state: the player stands on the ground, the engine reports contacts
\* of the player's parts, the torso may be found below the world, React renders.
GamePairs ==
    PlayerPairs({"spike", "goal", "ground", "monster1"}) \cup {<<"ground", "monster1">>}

Next ==
    \/ PlayerController(OnGround)
    \/ MonsterAI(FarView)
    \/ \E found \in PairLists(GamePairs, MaxPairs) : EngineStep("floor", {}, found)
    \/ CollisionStart
    \/ \E position \in {PlayerStart, PlayerBelow} : AfterUpdate({}, position)
    \/ ReactRender
    \/ SyncGameStateRef

Spec == Init /\ [][Next]_vars

----------------------------------------------------------------------------
(* Claims on the game state, checked under Spec *)

Terminal == {"gameOver", "won"}

\* C1: GameState is write-once per run: once it is GameOver or Won, no later
\* step (a collision-start event, the fall check, a render) changes it, for
\* every interleaving of updates with the effect that copies the React state
\* into gameStateRef.
C1_GameStateWriteOnce ==
    [][(gameState \in Terminal) => (gameState' = gameState)]_vars

\* The request a pair makes when the guard is open: the labels are spelled
\* out here, independently of the handler's branches.
TerminalRequest(pair) ==
    LET parts == {torso, head}
        other == IF pair[1] \in parts THEN pair[2] ELSE pair[1]
    IN IF (pair[1] \in parts) = (pair[2] \in parts) THEN "none"
       ELSE IF other \in {"spike"} \cup Range(Monsters) THEN "gameOver"
       ELSE IF other = "goal" THEN "won"
       ELSE "none"

TerminalIndexes(ps) == {i \in 1..Len(ps) : TerminalRequest(ps[i]) # "none"}

FirstTerminal(ps) ==
    ps[CHOOSE i \in TerminalIndexes(ps) : \A j \in TerminalIndexes(ps) : i <= j]

\* C2: when several terminal player pairs are reported in one update, the
\* transition applied is the one of the first pair processed; the later pairs
\* are no-ops (Spike followed by Goal ends as GameOver).
C2_FirstTerminalPairWins ==
    [][(pc = "collide" /\ gameStateRef = "playing" /\ TerminalIndexes(pairs) # {})
        => (pendingGameState' = TerminalRequest(FirstTerminal(pairs)))]_vars

LastTerminal(ps) ==
    ps[CHOOSE i \in TerminalIndexes(ps) : \A j \in TerminalIndexes(ps) : i >= j]

\* C9: for a pair with the torso or the head the outcome depends only on the
\* other body's label: Spike or Monster asks for GameOver, Goal for Won, any
\* other label changes nothing; Won is reached only through a player x Goal
\* pair and GameOver only through Spike, Monster or the fall check.
C9_OutcomeByLabel ==
    [][/\ (pc = "collide")
            => (pendingGameState' =
                 (IF gameStateRef = "playing" /\ TerminalIndexes(pairs) # {}
                  THEN TerminalRequest(LastTerminal(pairs))
                  ELSE pendingGameState))
       /\ (pc = "after" /\ pendingGameState' # pendingGameState)
            => (pendingGameState' = "gameOver")
       /\ (pc \notin {"collide", "after"})
            => (pendingGameState' \in {pendingGameState, "none"})
       /\ (gameState' # gameState) => (gameState' = pendingGameState)
      ]_vars

\* The handler has just served a Goal pair while Playing
C9_Witness == pc = "after" /\ pendingGameState = "won" /\ gameState = "playing"

----------------------------------------------------------------------------
(* Hits: the user fires, the engine reports projectile x monster contacts   *)
(* and projectiles leaving the level.                                       *)

HitEvents == HitPairs \cup {<<"ground", "monster1">>}

NextHits ==
    \/ KeyPress(FireCode)
    \/ KeyRepeat(FireCode)
    \/ KeyRelease(FireCode)
    \/ PlayerController(OnGround)
    \/ MonsterAI(FarView)
    \/ \E found \in PairLists(HitEvents, MaxPairs) : EngineStep("floor", {}, found)
    \/ CollisionStart
    \/ \E out \in SUBSET Range(projectiles) : AfterUpdate(Outside(out), PlayerStart)

SpecHits == Init /\ [][NextHits]_vars

\* The handler's state before and after it serves the i-th pair
BeforePair(i) == ResolvePairs(ResolverState, SubSeq(pairs, 1, i - 1))
AfterPair(i) == ResolvePairs(ResolverState, SubSeq(pairs, 1, i))

HitIndexes ==
    {i \in 1..Len(pairs) :
        \E p \in ProjectileBodies, m \in Range(Monsters) :
            pairs[i] = <<p, m>> \/ pairs[i] = <<m, p>>}

PairProjectile(i) == CHOOSE p \in ProjectileBodies : p \in Range(pairs[i])
PairMonster(i) == CHOOSE m \in Range(Monsters) : m \in Range(pairs[i])

\* C4 as claimed: each Projectile x Monster pair removes exactly one
\* projectile and exactly one monster from the world and the tracking lists,
\* and afterwards the monster has no AI record and no style seed, also when
\* several such pairs are reported in one update.
C4_EachPairRemovesOneOfEach ==
    pc = "collide" =>
        \A i \in HitIndexes :
            /\ Len(AfterPair(i).projectiles) = Len(BeforePair(i).projectiles) - 1
            /\ Len(AfterPair(i).monsters) = Len(BeforePair(i).monsters) - 1
            /\ Cardinality(AfterPair(i).world) = Cardinality(BeforePair(i).world) - 2
            /\ PairMonster(i) \notin DOMAIN AfterPair(i).monsterAI
            /\ PairMonster(i) \notin AfterPair(i).monsterStyleSeed

\* C4 as amended: each such pair removes its projectile and its monster where
\* they are still present (exactly one of each when both are, nothing of a
\* body an earlier pair of the update already removed) and nothing else;
\* afterwards neither is in the world or tracked and the monster has no AI
\* record and no style seed.
C4_PairRemovesItsBodies ==
    pc = "collide" =>
        \A i \in HitIndexes :
            LET b == BeforePair(i)
                a == AfterPair(i)
                p == PairProjectile(i)
                m == PairMonster(i)
            IN /\ a.projectiles = Filter(b.projectiles, Range(b.projectiles) \ {p})
               /\ a.monsters = Filter(b.monsters, Range(b.monsters) \ {m})
               /\ a.world = b.world \ {p, m}
               /\ DOMAIN a.monsterAI = DOMAIN b.monsterAI \ {m}
               /\ \A k \in DOMAIN a.monsterAI : a.monsterAI[k] = b.monsterAI[k]
               /\ a.monsterStyleSeed = b.monsterStyleSeed \ {m}
               /\ ({p, m} \subseteq b.world /\ p \in Range(b.projectiles)
                      /\ m \in Range(b.monsters))
                    => /\ Len(a.projectiles) = Len(b.projectiles) - 1
                       /\ Len(a.monsters) = Len(b.monsters) - 1
                       /\ Cardinality(a.world) = Cardinality(b.world) - 2
               /\ a.pending = b.pending

\* A hit has been served: a monster is gone with its record and its seed,
\* and the projectile that hit it is gone too
C4_Witness ==
    /\ pc = "after"
    /\ "monster1" \notin world
    /\ "monster1" \notin Range(monsters)
    /\ "monster1" \notin DOMAIN monsterAI
    /\ Len(monsters) = 2
    /\ projectiles = <<>>
    /\ firedThisPress

----------------------------------------------------------------------------
(* Input: the user works the fire key and two of the jump keys; the player  *)
(* is on the ground or in the air.                                          *)

InputCodes == {FireCode, "ArrowUp", "Space"}
Footings == {OnGround, {}}

NextInput ==
    \/ \E c \in InputCodes : KeyPress(c)
    \/ \E c \in InputCodes : KeyRepeat(c)
    \/ \E c \in InputCodes : KeyRelease(c)
    \/ \E under \in Footings : PlayerController(under)
    \/ MonsterAI(FarView)
    \/ \E contact \in {"floor", "none"} : EngineStep(contact, {}, <<>>)
    \/ CollisionStart
    \/ \E out \in SUBSET Range(projectiles) : AfterUpdate(Outside(out), PlayerStart)

SpecInput == Init /\ [][NextInput]_vars

\* C3: fire is edge-triggered: after a press of KeyK has created its
\* projectile, no further projectile is created while the key stays held
\* without a release, also when the host repeats the key-down event.
C3_FireEdgeTriggered ==
    [][(firedThisPress /\ FireCode \in held /\ FireCode \in held')
        => (Len(projectiles') <= Len(projectiles))]_vars

JumpHeld == held \cap JumpCodes # {}

\* C5: the controller jumps only in an update in which the jump input (any
\* of the jump keys, as one button) is down, was not down when the controller
\* ran before, and the player is grounded; the controller changes the
\* vertical velocity in no other case.
C5_JumpOnlyOnGroundedEdge ==
    [][(pc = "idle" /\ pc' = "ai")
        => /\ jumped' => (grounded' /\ JumpHeld /\ ~jumpHeldLastTick)
           /\ (vy' # vy) => jumped']_vars

\* The controller has just jumped
C5_Witness == pc = "ai" /\ jumped /\ grounded /\ vy = -jumpStrengthRef

----------------------------------------------------------------------------
(* Motion: the user runs and jumps, the page's slider changes the jump     *)
(* strength, the torso stands, flies or meets a wall.                       *)

MotionCodes == {"ArrowRight", "ArrowUp"}
\* A slider that goes up to the component's own default
SliderValuesToDefault == {sliderMin, defaultJumpStrength}

SliderValues == {sliderMin, sliderMax}

NextMotion ==
    \/ \E c \in MotionCodes : KeyPress(c)
    \/ \E c \in MotionCodes : KeyRelease(c)
    \/ \E v \in SliderValues : SetJumpStrength(v)
    \/ \E under \in Footings : PlayerController(under)
    \/ MonsterAI(FarView)
    \/ \E contact \in Contacts : EngineStep(contact, {}, <<>>)
    \/ CollisionStart
    \/ AfterUpdate({}, PlayerStart)

SpecMotion == Init /\ [][NextMotion]_vars

\* C6: on a jump the vertical velocity is overwritten to exactly
\* -jumpStrength (18 gives -18), whatever it was, and the jump leaves the
\* horizontal velocity as it finds it: the value the same update's clamp
\* left, which is the previous one whenever that is within the ground cap.
C6_JumpOverwritesVertical ==
    [][(pc = "idle" /\ pc' = "ai" /\ jumped')
        => /\ vy' = -jumpStrengthRef
           /\ jumpStrengthRef = sliderMax => vy' = -180
           /\ vx' = (IF vx > maxRunSpeed THEN maxRunSpeed
                     ELSE IF vx < -maxRunSpeed THEN -maxRunSpeed ELSE vx)
           /\ Abs(vx) <= maxRunSpeed => vx' = vx]_vars

\* A jump at strength 18 taken while running
C6_Witness ==
    /\ pc = "ai" /\ jumped /\ grounded
    /\ vx > 0 /\ vy = -180 /\ jumpStrengthRef = sliderMax

\* C7: the horizontal speed observed after the engine's step never exceeds
\* the ground cap (9.5) while grounded nor the air cap (10.5) while airborne.
C7_SpeedWithinCap ==
    pc \in {"collide", "after", "idle"} => Abs(vx) <= MaxSpeed(grounded)

\* C10: changing the jump-strength parameter changes no velocity by itself
\* (a jump in progress keeps the velocity it was given), and the jump that
\* follows the change uses the new value.
C10_JumpStrengthOnNextJumpOnly ==
    [][/\ (jumpStrength' # jumpStrength \/ jumpStrengthRef' # jumpStrengthRef)
            => (vx' = vx /\ vy' = vy)
       /\ (jumpStrength' # jumpStrength /\ jumpHeight = Undefined)
            => (jumpStrengthRef' = jumpStrength')
       /\ (pc = "idle" /\ pc' = "ai" /\ jumped' /\ jumpHeight = Undefined)
            => (vy' = -jumpStrength)]_vars

\* The slider was moved from 18 to 10 one update into a jump made at 18
C10_Witness ==
    /\ pc = "idle" /\ jumped
    /\ jumpStrength = sliderMin /\ jumpStrengthRef = sliderMin
    /\ vy = gravityStep - sliderMax

----------------------------------------------------------------------------
(* Patrol: nobody plays; in each update the engine moves any of the patrol  *)
(* monsters by the velocity its AI gave it, or finds it blocked.            *)

NextPatrol ==
    \/ PlayerController(OnGround)
    \/ MonsterAI(FarView)
    \/ \E movers \in SUBSET PatrolBodies : EngineStep("floor", movers, <<>>)
    \/ CollisionStart
    \/ AfterUpdate({}, PlayerStart)

SpecPatrol == Init /\ [][NextPatrol]_vars

WindowLow(m) == monsterAI[m].originX - monsterAI[m].range \div 2
WindowHigh(m) == monsterAI[m].originX + monsterAI[m].range \div 2

Patrolling == {m \in PatrolBodies : m \in world /\ m \in DOMAIN monsterAI}

\* C8 as stated: once the flip rule has run in an update, a patrol monster's
\* x is within [originX - range/2, originX + range/2].
C8_WithinWindow ==
    pc = "step" =>
        \A m \in Patrolling : /\ bodyX[m] >= WindowLow(m)
                              /\ bodyX[m] <= WindowHigh(m)

\* C8 amended: once the flip rule has run in an update, a patrol monster
\* that only its own patrol velocity moves is at most one update's travel
\* (its speed) outside the window, and whenever it is outside, its direction
\* and velocity point back into the window.
C8_OvershootSelfCorrects ==
    pc = "step" =>
        \A m \in Patrolling :
            /\ bodyX[m] >= WindowLow(m) - monsterAI[m].speed
            /\ bodyX[m] <= WindowHigh(m) + monsterAI[m].speed
            /\ bodyX[m] > WindowHigh(m)
                 => (monsterAI[m].dir = -1 /\ bodyVel[m][1] < 0)
            /\ bodyX[m] < WindowLow(m)
                 => (monsterAI[m].dir = 1 /\ bodyVel[m][1] > 0)

\* monster1 has crossed the right edge of its window and been turned back
C8_Witness ==
    /\ pc = "step"
    /\ "monster1" \in Patrolling
    /\ bodyX["monster1"] > WindowHigh("monster1")
    /\ monsterAI["monster1"].dir = -1

----------------------------------------------------------------------------
(* Camera: the engine leaves the torso at the start, in the middle or near  *)
(* the end of the level, and the window is resized: to its first width, to *)
(* nearly the level's length and to more than it.  The camera is followed  *)
(* over the first MaxCamera tenths of the level.                           *)

CameraPositions ==
    {PlayerStart, [x |-> LEVEL_LENGTH \div 2, y |-> 5200],
     [x |-> LEVEL_LENGTH - 1000, y |-> 5200]}
WindowWidths == {initialViewportW, LEVEL_LENGTH - 4000, LEVEL_LENGTH + 10000}

NextCamera ==
    \/ PlayerController(OnGround)
    \/ MonsterAI(FarView)
    \/ EngineStep("floor", {}, <<>>)
    \/ CollisionStart
    \/ \E position \in CameraPositions :
          /\ CameraTarget(position.x, viewportW) <= MaxCamera
          /\ AfterUpdate({}, position)
    \/ \E nextW \in WindowWidths : handleResize(nextW)

SpecCamera == Init /\ [][NextCamera]_vars

\* clampedTargetX for the torso position last read and the current viewport
Target == CameraTarget(playerPos.x, viewportW)

\* C11 as stated: the camera target is within [0, levelLength - viewportWidth]
\* for every player position and every viewport width.
C11_TargetInLevel ==
    /\ Target >= 0
    /\ Target <= LEVEL_LENGTH - viewportW

\* C11 amended: the target the camera is moved toward is player.x -
\* viewportWidth/2 clamped into [0, max(0, levelLength - viewportWidth)]: it
\* is 0 for a viewport wider than the level.
C11_TargetClamped ==
    [][(pc = "after" /\ pc' = "idle")
        => LET raw == playerPos'.x - viewportW \div 2
               hi == IF viewportW > LEVEL_LENGTH THEN 0
                     ELSE LEVEL_LENGTH - viewportW
               t == IF raw < 0 THEN 0 ELSE IF raw > hi THEN hi ELSE raw
           IN /\ t >= 0 /\ t <= hi
              /\ cameraX' = cameraX + RoundDiv((t - cameraX) * 14, 100)]_vars

\* The torso is near the end of the level in a window wider than the level,
\* and the camera is on its way back to 0
C11_Witness ==
    /\ pc = "idle"
    /\ viewportW > LEVEL_LENGTH
    /\ playerPos.x = LEVEL_LENGTH - 1000
    /\ Target = 0 /\ cameraX > 0

\* Where the camera ends for a player that stays put, and after how many ticks
RECURSIVE CameraLimit(_, _)
CameraLimit(cam, target) ==
    IF CameraStep(cam, target) = cam THEN cam
    ELSE CameraLimit(CameraStep(cam, target), target)

RECURSIVE SettleTicks(_, _)
SettleTicks(cam, target) ==
    IF CameraStep(cam, target) = cam THEN 0
    ELSE 1 + SettleTicks(CameraStep(cam, target), target)

\* C12 as stated: for a stationary player the smoothed camera offset reaches
\* the target within a bounded number of ticks and then stays there.
C12_ReachesTarget == CameraLimit(cameraX, Target) = Target

\* C12 amended: for a fixed target each tick brings the offset strictly
\* closer (to 0.86 of its distance, up to rounding) until the step is below
\* the resolution of the arithmetic; from then on, and within a bounded
\* number of ticks, the offset no longer changes and is within 3 units of
\* that resolution of the target, which it need not reach.
C12_SettlesNearTarget ==
    [][(pc = "after" /\ pc' = "idle")
        => LET t == CameraTarget(playerPos'.x, viewportW)
               d == Abs(t - cameraX)
               e == Abs(t - cameraX')
           IN /\ d > 3 => (e < d /\ 100 * e <= 86 * d + 50)
              /\ d <= 3 => cameraX' = cameraX
              /\ SettleTicks(cameraX', t) <= 80
              /\ Abs(t - CameraLimit(cameraX', t)) <= 3]_vars

\* The camera has come to rest short of its target
C12_Witness ==
    /\ pc = "idle"
    /\ Target > 0
    /\ cameraX # Target
    /\ CameraStep(cameraX, Target) = cameraX

----------------------------------------------------------------------------
(* Claims checked under Spec: the fall check *)

\* C13: when the torso is below world height + 260 at the end of a tick and
\* GameState is Playing, GameOver is requested; when GameState is not
\* Playing the fall check changes nothing (it requests nothing, or at most
\* the state GameState already has).
C13_FallCheck ==
    [][(pc = "after" /\ pc' = "idle" /\ Fell(playerPos'))
        => (IF gameState = "playing"
            THEN pendingGameState' = "gameOver"
            ELSE pendingGameState' \in {pendingGameState, gameState})]_vars

----------------------------------------------------------------------------
(* Flyer: the flying monster sees the player at every distance of          *)
(* FlyerViews while monster1 patrols or is blocked.                        *)

NextFlyer ==
    \/ PlayerController(OnGround)
    \/ \E view \in FlyerViews : MonsterAI(view)
    \/ \E movers \in SUBSET {"monster1"} : EngineStep("floor", movers, <<>>)
    \/ CollisionStart
    \/ AfterUpdate({}, PlayerStart)

SpecFlyer == Init /\ [][NextFlyer]_vars

flyer == "monster3"

\* C14: at a distance strictly between 1 and chaseRadius the flying
\* monster's velocity is set to point straight at the player with magnitude
\* exactly its speed; at a distance <= 1 or >= chaseRadius it hovers: each
\* component is 0.06 of the offset to the hover target, within +-speed.
C14_ChaseInsideRadius ==
    [][(pc = "ai" /\ pc' = "step" /\ flyer \in Range(monsters))
        => LET ai == monsterAI[flyer]
               view == flyerView'
               v == bodyVel'[flyer]
           IN IF view.dist > 10 /\ view.dist < 3400
              THEN /\ v[1] * view.dist = view.dx * ai.speed
                   /\ v[2] * view.dist = view.dy * ai.speed
                   /\ v[1] * v[1] + v[2] * v[2] = ai.speed * ai.speed
              ELSE /\ Abs(v[1]) <= ai.speed /\ Abs(v[2]) <= ai.speed
                   /\ Abs(view.toX) * 6 <= ai.speed * 100
                        => v[1] = RoundDiv(view.toX * 6, 100)
                   /\ Abs(view.toY) * 6 <= ai.speed * 100
                        => v[2] = RoundDiv(view.toY * 6, 100)
                   /\ view.toX * 6 < -ai.speed * 100 => v[1] = -ai.speed]_vars

\* The player is 130 away, inside the chase radius, and the flyer heads for it
C14_Witness ==
    /\ pc = "step"
    /\ flyer \in Range(monsters)
    /\ flyerView.dist = 1300
    /\ bodyVel[flyer] = <<-10, 24>>

----------------------------------------------------------------------------
(* Claims checked under SpecMotion: the range of the jump strength *)

----------------------------------------------------------------------------
(* Props: a host that passes both jumpStrength and the deprecated          *)
(* jumpHeight, while the player jumps.                                     *)

HeightValues == {Undefined, 140}

NextProps ==
    \/ KeyPress("ArrowUp")
    \/ KeyRelease("ArrowUp")
    \/ \E v \in SliderValues : SetJumpStrength(v)
    \/ \E h \in HeightValues : SetJumpHeight(h)
    \/ \E under \in Footings : PlayerController(under)
    \/ MonsterAI(FarView)
    \/ \E contact \in {"none", "floor"} : EngineStep(contact, {}, <<>>)
    \/ CollisionStart
    \/ AfterUpdate({}, PlayerStart)

SpecProps == Init /\ [][NextProps]_vars

\* C16: when both props are supplied, jumps use jumpStrength; jumpHeight is
\* only a fallback.
C16_JumpStrengthPreferred ==
    [][(pc = "idle" /\ pc' = "ai" /\ jumped') => (vy' = -jumpStrength)]_vars

----------------------------------------------------------------------------
(* Rebuild: the player shoots monsters and the host changes the size props, *)
(* which tears the world down and builds it again.                         *)

SizeProps == {Undefined, 6000}

\* A projectile meets monster1
RebuildEvents == {pair \in HitPairs : "monster1" \in Range(pair)}

NextRebuild ==
    \/ KeyPress(FireCode)
    \/ KeyRelease(FireCode)
    \/ \E w \in SizeProps : Rebuild(w)
    \/ PlayerController(OnGround)
    \/ MonsterAI(FarView)
    \/ \E found \in PairLists(RebuildEvents, MaxPairs) : EngineStep("floor", {}, found)
    \/ CollisionStart
    \/ \E out \in SUBSET Range(projectiles) : AfterUpdate(Outside(out), PlayerStart)

SpecRebuild == Init /\ [][NextRebuild]_vars

\* Every body of engine.world, given the removable ones
EngineWorld(removable) == removable \cup StaticBodies \cup {movingPlatform, torso, head}

IsStatic(b) == b \in StaticBodies

\* How many bodies there are of each label and static flag
Shape(bodies) ==
    {<<Label(b), IsStatic(b),
       Cardinality({c \in bodies : Label(c) = Label(b) /\ IsStatic(c) = IsStatic(b)})>> :
        b \in bodies}

C18_RegistryMatchesTracked ==
    /\ DOMAIN monsterAI = Range(monsters)
    /\ staleAI = {}

----------------------------------------------------------------------------
(* Order: projectiles meet monster1 in the same update in which the player *)
(* touches monster1 or the goal; the engine lists the pairs in any order.  *)

OrderEvents == RebuildEvents \cup PlayerPairs({"goal", "monster1"})

NextOrder ==
    \/ KeyPress(FireCode)
    \/ KeyRelease(FireCode)
    \/ PlayerController(OnGround)
    \/ MonsterAI(FarView)
    \/ \E found \in PairLists(OrderEvents, MaxPairs) : EngineStep("floor", {}, found)
    \/ CollisionStart
    \/ AfterUpdate({}, PlayerStart)
    \/ ReactRender
    \/ SyncGameStateRef

SpecOrder == Init /\ [][NextOrder]_vars

\* The projectile x monster pairs of a list, and the others, in their order
HitsOf(ps) == Filter(ps, {pair \in Range(ps) : IsHitPair(pair)})
OthersOf(ps) == Filter(ps, {pair \in Range(ps) : ~IsHitPair(pair)})

\* C19: the outcome of one tick's pairs is the same wherever the projectile
\* x monster pairs stand relative to the player pairs (all of them first,
\* all of them last, or as the engine listed them): the same bodies and
\* registry entries are removed and the same GameState is requested; and
\* the projectile x monster pairs alone request no GameState.
C19_HitsIndependentOfPlayerPairs ==
    [][(pc = "collide")
        => LET first == ResolvePairs(ResolverState, HitsOf(pairs) \o OthersOf(pairs))
               last == ResolvePairs(ResolverState, OthersOf(pairs) \o HitsOf(pairs))
               alone == ResolvePairs(ResolverState, HitsOf(pairs))
           IN /\ first = last
              /\ world' = first.world
              /\ projectiles' = first.projectiles
              /\ monsters' = first.monsters
              /\ monsterAI' = first.monsterAI
              /\ monsterStyleSeed' = first.monsterStyleSeed
              /\ pendingGameState' = first.pending
              /\ alone.pending = pendingGameState
              /\ alone.world = first.world]_vars

\* One update in which monster1 was shot and also touched the player
C19_Witness ==
    /\ pc = "after"
    /\ "monster1" \notin world
    /\ "monster1" \notin DOMAIN monsterAI
    /\ gameState = "playing" /\ gameStateRef = "playing"
    /\ pendingGameState = "gameOver"

----------------------------------------------------------------------------
(* Platform: in each update the engine moves the moving platform and       *)
(* monster2 by the velocity their AI gave them, or finds them blocked.     *)

NextPlatform ==
    \/ PlayerController(OnGround)
    \/ MonsterAI(FarView)
    \/ \E movers \in SUBSET {movingPlatform, "monster2"} : EngineStep("floor", movers, <<>>)
    \/ CollisionStart
    \/ AfterUpdate({}, PlayerStart)

SpecPlatform == Init /\ [][NextPlatform]_vars

----------------------------------------------------------------------------
(* Claims checked under SpecFlyer: the hover branch *)

\* C21: in hover mode the velocity given to the flying monster is 0.06 of
\* the offset to the hover target clamped to the AI's max speed, so its
\* magnitude never exceeds ai.speed.
C21_HoverSpeedWithinMax ==
    [][(/\ pc = "ai" /\ pc' = "step"
        /\ flyer \in Range(monsters) \cap DOMAIN monsterAI
        /\ ~(flyerView'.dist > 10 /\ flyerView'.dist < monsterAI[flyer].chaseRadius))
        => LET v == bodyVel'[flyer]
               speed == monsterAI[flyer].speed
           IN v[1] * v[1] + v[2] * v[2] <= speed * speed]_vars

----------------------------------------------------------------------------
(* Ground: under the torso's centre the ray finds any of: the torso       *)
(* itself, the head, the goal sensor, a monster, a boundary wall and       *)
(* ground just within reach, and a platform just out of reach.             *)

GroundCandidates ==
    { [body |-> torso, gap |-> 0], [body |-> head, gap |-> 0],
      [body |-> "goal", gap |-> 100], [body |-> "monster1", gap |-> 300],
      [body |-> "boundary", gap |-> 300], [body |-> "ground", gap |-> 300],
      [body |-> "platform", gap |-> 320] }

NextGround ==
    \/ \E under \in SUBSET GroundCandidates : PlayerController(under)
    \/ MonsterAI(FarView)
    \/ \E contact \in {"none", "floor"} : EngineStep(contact, {}, <<>>)
    \/ CollisionStart
    \/ AfterUpdate({}, PlayerStart)

SpecGround == Init /\ [][NextGround]_vars

\* C22: the player is grounded in a tick exactly when the downward ray of
\* length 35% of the player height + 10 (= 31) meets at least one body that
\* is not the torso, not the head, not a sensor and not labelled monster or
\* boundary; one such hit among several suffices, none means not grounded.
C22_GroundedIffQualifyingHit ==
    [][(pc = "idle" /\ pc' = "ai")
        => (grounded' <=>
              \E c \in below' :
                 /\ c.gap < 310
                 /\ c.body \notin {torso, head}
                 /\ c.body # "goal"
                 /\ Label(c.body) # "monster"
                 /\ Label(c.body) # "boundary")]_vars

\* Grounded on one qualifying hit among the torso, a monster and a wall
C22_Witness ==
    /\ pc = "ai"
    /\ grounded
    /\ {c.body : c \in below} = {torso, "monster1", "boundary", "ground", "platform"}

----------------------------------------------------------------------------
(* Claims checked under SpecHits: the AI step and the registries *)

\* C23: the AI step never adds or removes an entry of the monster tracking
\* list or of the AI registry: it changes only the direction of a record
\* and the velocities of the tracked bodies; a monster without a record, or
\* one no longer tracked, keeps its velocity; and registry entries are
\* removed only by the collision resolver.
C23_AIKeepsRegistry ==
    [][/\ (pc = "ai" /\ pc' = "step")
            => /\ monsters' = monsters
               /\ DOMAIN monsterAI' = DOMAIN monsterAI
               /\ monsterStyleSeed' = monsterStyleSeed
               /\ \A m \in DOMAIN monsterAI :
                     monsterAI'[m] = [monsterAI[m] EXCEPT !.dir = monsterAI'[m].dir]
               /\ \A m \in Range(Monsters) \ (Range(monsters) \cap DOMAIN monsterAI) :
                     bodyVel'[m] = bodyVel[m]
       /\ (DOMAIN monsterAI \ DOMAIN monsterAI' # {}) => (pc = "collide")]_vars

\* The AI step has run after monster1 was shot: its record and its list
\* entry are gone, the others are still there
C23_Witness ==
    /\ pc = "step"
    /\ "monster1" \notin DOMAIN monsterAI
    /\ Range(monsters) = {"monster2", "monster3"}
    /\ DOMAIN monsterAI = {"monster2", "monster3"}
    /\ bodyVel["monster2"][1] # 0

----------------------------------------------------------------------------
(* Bounds: the user fires, and the engine leaves the projectiles on, just   *)
(* inside and just outside each edge of the clean-up rectangle.            *)

BoundsPlaces ==
    {[x |-> 0, y |-> 5200], [x |-> -10, y |-> 5200],
     [x |-> LEVEL_LENGTH, y |-> 5200], [x |-> LEVEL_LENGTH + 10, y |-> 5200],
     [x |-> 1440, y |-> -boundsMargin], [x |-> 1440, y |-> -boundsMargin - 10],
     [x |-> 1440, y |-> WORLD_HEIGHT + boundsMargin],
     [x |-> 1440, y |-> WORLD_HEIGHT + boundsMargin + 10]}

\* Every way the engine can have left some of the projectiles S
Sightings(S) ==
    UNION {{{[body |-> p, x |-> f[p].x, y |-> f[p].y] : p \in T} : f \in [T -> BoundsPlaces]}
           : T \in SUBSET S}

NextBounds ==
    \/ KeyPress(FireCode)
    \/ KeyRelease(FireCode)
    \/ PlayerController(OnGround)
    \/ MonsterAI(FarView)
    \/ EngineStep("floor", {}, <<>>)
    \/ CollisionStart
    \/ \E seen \in Sightings(Range(projectiles) \cap world) : AfterUpdate(seen, PlayerStart)

SpecBounds == Init /\ [][NextBounds]_vars

\* C24: the clean-up of a tick removes from the world and from the tracking
\* list every tracked projectile that is outside [0, LEVEL_LENGTH] x
\* [-200, WORLD_HEIGHT + 200], leaves every other tracked projectile as it
\* was, and so leaves only projectiles inside that rectangle in the list.
C24_CleanupKeepsInside ==
    [][(pc = "after" /\ pc' = "idle") =>
       (/\ \A p \in Range(projectiles) :
              LET inside == /\ 0 <= projectileAt'[p].x
                            /\ projectileAt'[p].x <= LEVEL_LENGTH
                            /\ -2000 <= projectileAt'[p].y
                            /\ projectileAt'[p].y <= WORLD_HEIGHT + 2000
              IN IF inside
                 THEN p \in Range(projectiles') /\ (p \in world' <=> p \in world)
                 ELSE p \notin Range(projectiles') /\ p \notin world'
        /\ Range(projectiles') \subseteq Range(projectiles)
        /\ \A p \in Range(projectiles') :
              /\ 0 <= projectileAt'[p].x /\ projectileAt'[p].x <= LEVEL_LENGTH
              /\ -2000 <= projectileAt'[p].y
              /\ projectileAt'[p].y <= WORLD_HEIGHT + 2000)]_vars

\* The clean-up has served two projectiles: one just below the rectangle is
\* gone, one on the rectangle's right edge is kept
C24_Witness ==
    /\ pc = "idle"
    /\ projectileAt["projectile1"] = [x |-> 1440, y |-> WORLD_HEIGHT + boundsMargin + 10]
    /\ "projectile1" \notin world
    /\ projectileAt["projectile2"] = [x |-> LEVEL_LENGTH, y |-> 5200]
    /\ projectiles = <<"projectile2">>
    /\ "projectile2" \in world

\* C25: at every tick boundary the tracked projectiles are exactly the
\* projectile bodies in the world: after firing, hits and clean-up, and after
\* the world has been torn down and rebuilt.
C25_TrackedAreInWorld ==
    pc = "idle" => Range(projectiles) = world \cap ProjectileBodies

\* C26: once GameState is GameOver or Won, no later step creates a
\* projectile or removes a monster, and the player controller leaves the
\* player's velocity as it was.
C26_TerminalIgnoresInput ==
    [][(gameState \in Terminal) =>
       (/\ Range(projectiles') \subseteq Range(projectiles)
        /\ monsters' = monsters
        /\ (pc = "idle" /\ pc' = "ai") => (vx' = vx /\ vy' = vy))]_vars

\* C27: every press of a jump key made while the player is grounded produces
\* a jump in the controller's next run if the player is still grounded then,
\* whatever key-down and key-up events come between the two.  Stated for the
\* presses the controller can tell apart: no jump key was down in its
\* previous run.
C27_PressOnGroundJumps ==
    [][(pc = "idle" /\ pc' = "ai" /\ jumpOwed /\ ~jumpWasDown /\ grounded')
        => jumped']_vars

\* C28: the smoothed camera offset is always within
\* [0, max(0, LEVEL_LENGTH - viewport width)], for every sequence of player
\* positions and window resizes, starting from 0.
C28_CameraInLevel ==
    /\ 0 <= cameraX
    /\ cameraX <= (IF LEVEL_LENGTH - viewportW > 0 THEN LEVEL_LENGTH - viewportW ELSE 0)

----------------------------------------------------------------------------
(* Axis: the user works the four movement keys while the player stands on  *)
(* the ground.                                                              *)

NextAxis ==
    \/ \E c \in LeftCodes \cup RightCodes : KeyPress(c)
    \/ \E c \in LeftCodes \cup RightCodes : KeyRelease(c)
    \/ PlayerController(OnGround)
    \/ MonsterAI(FarView)
    \/ EngineStep("floor", {}, <<>>)
    \/ CollisionStart
    \/ AfterUpdate({}, PlayerStart)

SpecAxis == Init /\ [][NextAxis]_vars

\* C29: in every run of the controller the axis is +1 when a Right key
\* (ArrowRight or KeyD) is held and no Left key (ArrowLeft or KeyA), -1 when
\* a Left key is held and no Right key, and 0 when neither or both are held:
\* it is decided by the keys held at that tick alone.
C29_AxisByKeysHeld ==
    [][(pc = "idle" /\ pc' = "ai") =>
       (LET right == keysRef["ArrowRight"] \/ keysRef["KeyD"]
            left == keysRef["ArrowLeft"] \/ keysRef["KeyA"]
        IN /\ (axisSeen' = 1) <=> (right /\ ~left)
           /\ (axisSeen' = -1) <=> (left /\ ~right)
           /\ (axisSeen' = 0) <=> (left <=> right))]_vars

\* The controller has run with a Right key and a Left key held together,
\* after a run that went right
C29_Witness ==
    /\ pc = "ai"
    /\ axisSeen = 0
    /\ keysRef["KeyD"] /\ keysRef["ArrowLeft"]
    /\ facing = 1
    /\ vx > 0

----------------------------------------------------------------------------
(* Tear-down: the component is unmounted and the world-building effect's    *)
(* cleanup runs.  React runs it from its own task, between two callbacks of *)
(* the runner.                                                              *)

\* The cleanup without its last removeEventListener
CleanupListenersButResize == {"keydown", "keyup", "touchmove", "wheel"}

\* window.removeEventListener(...) of the cleanup
CleanupListeners == {"keydown", "keyup", "touchmove", "wheel", "resize"}

\* Matter.Render.stop(render); Matter.Runner.stop(runner)
CleanupLoops == {"render", "runner"}

Teardown ==
    /\ pc = "idle"
    /\ mounted
    /\ mounted' = FALSE
    /\ listeners' = listeners \ CleanupListeners
    /\ running' = running \ CleanupLoops
    /\ UNCHANGED <<inputVars, stateVars, pc, pairs, bodyVars, npcVars, playerVars,
                   propVars, histVars, cameraVars, buildVars, drawnCamX>>

\* The renderer's loop: afterRender draws the scene at cameraXRef.current
RenderFrame ==
    /\ pc = "idle"
    /\ "render" \in running
    /\ drawnCamX' = cameraX
    /\ UNCHANGED <<inputVars, stateVars, pc, pairs, bodyVars, npcVars, playerVars,
                   propVars, histVars, cameraVars, buildVars, mounted, listeners,
                   running>>

\* The torso a little right of the first viewport's middle, and two window
\* widths: the camera's target is 1 and 0
TeardownPosition == [x |-> 4010, y |-> 5200]
TeardownWidths == {initialViewportW, initialViewportW + 20}

NextTeardown ==
    \/ KeyPress(FireCode)
    \/ KeyRelease(FireCode)
    \/ PlayerController(OnGround)
    \/ MonsterAI(FarView)
    \/ EngineStep("floor", {}, <<>>)
    \/ CollisionStart
    \/ AfterUpdate({}, TeardownPosition)
    \/ RenderFrame
    \/ \E nextW \in TeardownWidths : handleResize(nextW)
    \/ Teardown

SpecTeardown == Init /\ [][NextTeardown]_vars

\* C30: after tear-down no simulation tick and no render runs and no key or
\* resize event reaches the component, every window listener registered at
\* set-up (keydown, keyup, touchmove, wheel, resize) being removed; and
\* tear-down takes place between ticks, never inside one.
C30_TeardownStopsAll ==
    [][/\ ~mounted =>
            /\ listeners = {}
            /\ pc' = pc
            /\ drawnCamX' = drawnCamX
            /\ keysRef' = keysRef
            /\ viewportW' = viewportW
            /\ UNCHANGED <<bodyVars, playerVars, cameraX>>
       /\ (mounted /\ ~mounted') => (pc = "idle" /\ listeners' = {})]_vars

\* Torn down with the fire key held, after a tick that fired and moved the
\* camera and a render that drew it
C30_Witness ==
    /\ ~mounted
    /\ listeners = {}
    /\ running = {}
    /\ FireCode \in held
    /\ keysRef[FireCode]
    /\ projectiles # <<>>
    /\ cameraX > 0
    /\ drawnCamX = cameraX
====
